---- MODULE Spec2Model ----
(***************************************************************************)
(* yt-archiver: channel store (config.py), sync reconciliation, local scan *)
(* by file name, fetch and purge (archiver.py), and the CLI loop (cli.py). *)
(*                                                                         *)
(* File names and video ids are sequences of one-character strings, so the *)
(* regular expression of get_local_videos and the glob of cleanup_videos   *)
(* are computed character by character.  An optional value (Python None or *)
(* a value) is a set with at most one element: {} is None, {x} is x.       *)
(***************************************************************************)
EXTENDS Integers, Sequences, FiniteSets, TLC

VARIABLES
    config,         \* Config.config: [hasChannels, channels]
    disk,           \* the configuration file as last written by Config.save
    last_add,       \* what the last `add` command did (history)
    files,          \* [channel name -> set of entry names in its directory]
    dirState,       \* [channel name -> "ok" | "missing" | "unreadable"]
    pc,             \* position of the `sync` command
    cur,            \* index of the channel being synced in channels()
    runs,           \* number of `sync` commands started
    local_videos,   \* sync_channel: local_videos
    latest_videos,  \* sync_channel: latest_videos
    new_videos,     \* argument of download_videos
    dl_pending,     \* ids download_videos has not reached yet
    old_videos,     \* argument of cleanup_videos
    rm_pending,     \* patterns cleanup_videos has not reached yet
    invoked,        \* [video id -> downloader invocations in this sync_channel]
    attempted,      \* entries os.unlink was called on in this sync_channel
    deleted,        \* entries os.unlink removed in this sync_channel
    dl_failed,      \* some downloader invocation exited non-zero
    rm_failed,      \* some os.unlink raised
    list_failed,    \* os.listdir raised in get_local_videos
    synced,         \* indexes of the channels whose sync_channel returned
    lv_feed,        \* get_latest_videos alone: the feed
    lv_keep,        \* get_latest_videos alone: channel.keep
    lv_result       \* get_latest_videos alone: {} before the call, {ids} after

vars == <<config, disk, last_add, files, dirState, pc, cur, runs, local_videos,
          latest_videos, new_videos, dl_pending, old_videos, rm_pending, invoked,
          attempted, deleted, dl_failed, rm_failed, list_failed, synced,
          lv_feed, lv_keep, lv_result>>

cfgVars == <<config, disk, last_add>>
fsVars == <<files, dirState>>
syncVars == <<pc, cur, runs, local_videos, latest_videos, new_videos, dl_pending,
              old_videos, rm_pending, invoked, attempted, deleted, dl_failed,
              rm_failed, list_failed, synced>>
lvVars == <<lv_feed, lv_keep, lv_result>>

(***************************************************************************)
(* Bounds                                                                  *)
(***************************************************************************)
MaxFeed == 3        \* longest remote feed
MaxInitFiles == 3   \* most entries in a channel directory at the start
MaxRuns == 2        \* most `sync` commands in one behaviour
MaxKeep == 3        \* largest keep
MaxAdds == 2        \* most `add` commands in one behaviour

None == {}
Some(x) == {x}

SeqsUpTo(S, n) == UNION {[1..k -> S] : k \in 0..n}
Range(s) == {s[i] : i \in DOMAIN s}
Min(a, b) == IF a < b THEN a ELSE b

(***************************************************************************)
(* Characters.  WordChars is the part of \w the model uses; IdChars is the *)
(* class [\w-] of the video pattern.                                       *)
(***************************************************************************)
WordChars == {"a", "b", "t", "m", "p", "_"}
IdChars == WordChars \cup {"-"}

IdA == <<"a">>
IdAB == <<"a", "b">>
IdB == <<"b">>

(***************************************************************************)
(* get_latest_videos: the enumerate loop.  index is 1-based here, so the   *)
(* test `index + 1 == channel.keep` reads `index \in keep`.                *)
(***************************************************************************)
RECURSIVE latest_loop(_, _, _, _)
latest_loop(videos, keep, index, video_ids) ==
    IF index > Len(videos) THEN video_ids
    ELSE LET added == video_ids \cup {videos[index]}
         IN  IF index \in keep THEN added
             ELSE latest_loop(videos, keep, index + 1, added)

get_latest_videos_nobreak(videos, keep) == Range(videos)

get_latest_videos(videos, keep) == latest_loop(videos, keep, 1, {})

(***************************************************************************)
(* video_pattern = "\[([\w-]+)\]\.\w+$" and re.search.                     *)
(***************************************************************************)
RECURSIVE RunEnd(_, _, _)
\* index of the last character of the longest run of `class` starting at i
RunEnd(s, i, class) ==
    IF i <= Len(s) /\ s[i] \in class THEN RunEnd(s, i + 1, class) ELSE i - 1

\* the pattern matched with its "[" at position i: {group 1}, or {} if no match
MatchAt(s, i) ==
    IF s[i] # "[" THEN None
    ELSE LET j == RunEnd(s, i + 1, IdChars)
         IN  IF /\ j >= i + 1
                /\ j + 3 <= Len(s)
                /\ s[j + 1] = "]"
                /\ s[j + 2] = "."
                /\ RunEnd(s, j + 3, WordChars) = Len(s)
             THEN Some(SubSeq(s, i + 1, j))
             ELSE None

RECURSIVE SearchFrom(_, _)
SearchFrom(s, i) ==
    IF i > Len(s) THEN None
    ELSE IF MatchAt(s, i) # None THEN MatchAt(s, i)
    ELSE SearchFrom(s, i + 1)

re_search(s) == SearchFrom(s, 1)

(***************************************************************************)
(* glob.glob(".../*<pattern>*"): fnmatch of "*p*" is "p occurs in the      *)
(* name"; a pattern not starting with "." skips the names that do.         *)
(***************************************************************************)
Contains(name, p) ==
    \E i \in 1..(Len(name) - Len(p) + 1) : SubSeq(name, i, i + Len(p) - 1) = p

IsHidden(name) == Len(name) > 0 /\ name[1] = "."

fnmatch_star(name, p) == TRUE

fnmatch(name, p) == Contains(name, p)

glob_glob(state, entries, p) ==
    IF state # "ok" THEN {}
    ELSE {e \in entries : ~IsHidden(e) /\ fnmatch(e, p)}

(***************************************************************************)
(* Entry names.  Tagged is the name the downloader's output template       *)
(* gives: "<title>[<id>].<ext>".                                           *)
(***************************************************************************)
Ext == <<"m">>
Tagged(title, id) == title \o <<"[">> \o id \o <<"]", ".">> \o Ext

TitleT == <<"t", " ">>
Titles == {TitleT}

ThumbA == <<"a", ".", "m">>                     \* "a.m": no tag, holds id a
PlainT == <<"t", ".", "m">>                     \* "t.m": no tag, holds no id
HiddenB == <<".">> \o Tagged(<<>>, IdB)         \* ".[b].m"
SubdirB == <<"t">> \o Tagged(<<>>, IdB)         \* "t[b].m", a subdirectory

InitNames ==
    {Tagged(TitleT, IdA), Tagged(TitleT, IdAB), Tagged(TitleT, IdB),
     Tagged(<<>>, IdA), ThumbA, PlainT, HiddenB, SubdirB}

\* the entries that are directories when present (os.path.isfile is false)
SubdirNames == {SubdirB}
os_path_isfile(e) == e \notin SubdirNames

ChannelNames == {"n1", "n2", "n3"}
ChannelIds == {"c1", "c2", "c3"}

\* the ids the remote service can list for a channel
RemoteVideoIds(cid) ==
    CASE cid = "c1" -> {IdA, IdAB, IdB}
      [] cid = "c2" -> {IdB}
      [] OTHER -> {IdA}

AllVideoIds == {IdA, IdAB, IdB}

Feeds(cid) == SeqsUpTo(RemoteVideoIds(cid), MaxFeed)

(***************************************************************************)
(* get_local_videos                                                        *)
(***************************************************************************)
get_local_videos_nolistcheck(state, entries) ==
    UNION {re_search(e) : e \in {x \in entries : os_path_isfile(x)}}

get_local_videos(state, entries) ==
    IF state # "ok" THEN {}
    ELSE UNION {re_search(e) : e \in {x \in entries : os_path_isfile(x)}}

(***************************************************************************)
(* Config                                                                  *)
(***************************************************************************)
Chan(n, i, k) == [name |-> n, id |-> i, keep |-> k]

Config_channels(cfg) == IF cfg.hasChannels THEN cfg.channels ELSE <<>>

Config_add_channel_byname(cfg, new_channel) ==
    IF \E i \in DOMAIN Config_channels(cfg) :
           Config_channels(cfg)[i].name = new_channel.name
    THEN [ok |-> FALSE, config |-> cfg]
    ELSE [ok |-> TRUE,
          config |-> IF cfg.hasChannels
                     THEN [cfg EXCEPT !.channels = Append(@, new_channel)]
                     ELSE cfg]

\* self.config.get("channels", []).append(kwargs): without a "channels" key the
\* append goes to the default list, which is dropped
Config_add_channel(cfg, new_channel) ==
    IF \E i \in DOMAIN Config_channels(cfg) :
           Config_channels(cfg)[i].id = new_channel.id
    THEN [ok |-> FALSE, config |-> cfg]
    ELSE [ok |-> TRUE,
          config |-> IF cfg.hasChannels
                     THEN [cfg EXCEPT !.channels = Append(@, new_channel)]
                     ELSE cfg]

NoAdd == [n |-> 0, channel |-> Chan("n1", "c1", None), result |-> FALSE,
          exit |-> 0, before |-> <<>>, saved |-> FALSE]

\* `add`: main builds the Channel, ArchiverCLI.add maps the result of
\* Archiver.add_channel to the exit code, Archiver.add_channel saves on True
Add ==
    /\ last_add.n < MaxAdds
    /\ \E n \in {"n1", "n2"}, i \in ChannelIds, k \in {None, Some(2)} :
          LET r == Config_add_channel(config, Chan(n, i, k))
          IN  /\ config' = r.config
              /\ disk' = IF r.ok THEN r.config ELSE disk
              /\ last_add' = [n |-> last_add.n + 1,
                              channel |-> Chan(n, i, k),
                              result |-> r.ok,
                              exit |-> IF r.ok THEN 0 ELSE 1,
                              before |-> Config_channels(config),
                              saved |-> r.ok]
    /\ UNCHANGED <<fsVars, syncVars, lvVars>>

(***************************************************************************)
(* sync: ArchiverCLI.sync loops over channels() and calls sync_channel.    *)
(* pc: "idle" -> "loop" -> "scanned" -> "download" -> "cleanup" ->         *)
(* "returned" -> "loop" ... -> "exit"; "aborted" when an exception leaves  *)
(* the loop.                                                               *)
(***************************************************************************)
Channel == Config_channels(config)[cur]

NoInvocations == [v \in AllVideoIds |-> 0]

\* `sync` starts: the loop of ArchiverCLI.sync is entered
SyncStart ==
    /\ pc \in {"idle", "exit", "aborted"}
    /\ runs < MaxRuns
    /\ runs' = runs + 1
    /\ pc' = "loop"
    /\ cur' = 1
    /\ synced' = {}
    /\ UNCHANGED <<cfgVars, fsVars, lvVars, local_videos, latest_videos,
                   new_videos, dl_pending, old_videos, rm_pending, invoked,
                   attempted, deleted, dl_failed, rm_failed, list_failed>>

\* the next channel of the loop: sync_channel begins with get_local_videos
SyncChannelBegin ==
    /\ pc = "loop"
    /\ cur <= Len(Config_channels(config))
    /\ local_videos' = get_local_videos(dirState[Channel.name], files[Channel.name])
    /\ list_failed' = (dirState[Channel.name] # "ok")
    /\ latest_videos' = {}
    /\ new_videos' = {}
    /\ dl_pending' = {}
    /\ old_videos' = {}
    /\ rm_pending' = {}
    /\ invoked' = NoInvocations
    /\ attempted' = {}
    /\ deleted' = {}
    /\ dl_failed' = FALSE
    /\ rm_failed' = FALSE
    /\ pc' = "scanned"
    /\ UNCHANGED <<cfgVars, fsVars, lvVars, cur, runs, synced>>

\* the loop is over: ArchiverCLI.sync returns 0
SyncExit ==
    /\ pc = "loop"
    /\ cur > Len(Config_channels(config))
    /\ pc' = "exit"
    /\ UNCHANGED <<cfgVars, fsVars, lvVars, cur, runs, synced, local_videos,
                   latest_videos, new_videos, dl_pending, old_videos, rm_pending,
                   invoked, attempted, deleted, dl_failed, rm_failed, list_failed>>

NewVideosAll(latest, local) == latest

NewVideos(latest, local) == latest \ local

OldVideos(local, latest) == local \ latest

\* get_latest_videos returns; new_videos is computed and download_videos entered
GetLatest ==
    /\ pc = "scanned"
    /\ \E videos \in Feeds(Channel.id) :
          /\ latest_videos' = get_latest_videos(videos, Channel.keep)
          /\ new_videos' = NewVideos(latest_videos', local_videos)
          /\ dl_pending' = new_videos'
    /\ pc' = "download"
    /\ UNCHANGED <<cfgVars, fsVars, lvVars, cur, runs, synced, local_videos,
                   old_videos, rm_pending, invoked, attempted, deleted,
                   dl_failed, rm_failed, list_failed>>

\* scrapetube raises: nothing catches it in sync_channel, ArchiverCLI.sync or
\* main, so the command ends there
GetLatestRaises ==
    /\ pc = "scanned"
    /\ pc' = "aborted"
    /\ UNCHANGED <<cfgVars, fsVars, lvVars, cur, runs, synced, local_videos,
                   latest_videos, new_videos, dl_pending, old_videos, rm_pending,
                   invoked, attempted, deleted, dl_failed, rm_failed, list_failed>>

\* one iteration of download_videos with a loop that stops at a non-zero exit
download_step_break(name, video, ok, title) ==
    /\ invoked' = [invoked EXCEPT ![video] = @ + 1]
    /\ dl_pending' = IF ok THEN dl_pending \ {video} ELSE {}
    /\ dl_failed' = (dl_failed \/ ~ok)
    /\ files' = IF ok THEN [files EXCEPT ![name] = @ \cup {Tagged(title, video)}]
                ELSE files
    /\ dirState' = IF ok /\ dirState[name] = "missing"
                   THEN [dirState EXCEPT ![name] = "ok"]
                   ELSE dirState

\* one iteration of download_videos: subprocess.call, its exit status dropped.
\* ok: the downloader exits 0 and leaves "<title>[<video>].<ext>" in the
\* channel directory (creating the directory if needed); otherwise it exits
\* non-zero and leaves nothing
download_step(name, video, ok, title) ==
    /\ invoked' = [invoked EXCEPT ![video] = @ + 1]
    /\ dl_pending' = dl_pending \ {video}
    /\ dl_failed' = (dl_failed \/ ~ok)
    /\ files' = IF ok THEN [files EXCEPT ![name] = @ \cup {Tagged(title, video)}]
                ELSE files
    /\ dirState' = IF ok /\ dirState[name] = "missing"
                   THEN [dirState EXCEPT ![name] = "ok"]
                   ELSE dirState

Download ==
    /\ pc = "download"
    /\ \E video \in dl_pending, ok \in BOOLEAN, title \in Titles :
          download_step(Channel.name, video, ok, title)
    /\ UNCHANGED <<cfgVars, lvVars, pc, cur, runs, synced, local_videos,
                   latest_videos, new_videos, old_videos, rm_pending, attempted,
                   deleted, rm_failed, list_failed>>

\* download_videos returns; old_videos is computed and cleanup_videos entered
CleanupBegin ==
    /\ pc = "download"
    /\ dl_pending = {}
    /\ old_videos' = OldVideos(local_videos, latest_videos)
    /\ rm_pending' = old_videos'
    /\ pc' = "cleanup"
    /\ UNCHANGED <<cfgVars, fsVars, lvVars, cur, runs, synced, local_videos,
                   latest_videos, new_videos, dl_pending, invoked, attempted,
                   deleted, dl_failed, rm_failed, list_failed>>

\* one pattern of cleanup_videos: glob, then os.unlink on each match inside
\* try/except.  failing: the matches whose unlink raises (a directory always)
cleanup_step(name, pattern, failing) ==
    LET matched == glob_glob(dirState[name], files[name], pattern)
    IN  /\ failing \subseteq matched
        /\ (matched \cap SubdirNames) \subseteq failing
        /\ files' = [files EXCEPT ![name] = @ \ (matched \ failing)]
        /\ attempted' = attempted \cup matched
        /\ deleted' = deleted \cup (matched \ failing)
        /\ rm_failed' = (rm_failed \/ failing # {})
        /\ rm_pending' = rm_pending \ {pattern}

Cleanup ==
    /\ pc = "cleanup"
    /\ \E pattern \in rm_pending, failing \in SUBSET files[Channel.name] :
          cleanup_step(Channel.name, pattern, failing)
    /\ UNCHANGED <<cfgVars, lvVars, dirState, pc, cur, runs, synced,
                   local_videos, latest_videos, new_videos, dl_pending,
                   old_videos, invoked, dl_failed, list_failed>>

\* cleanup_videos and sync_channel return
SyncChannelReturn ==
    /\ pc = "cleanup"
    /\ rm_pending = {}
    /\ pc' = "returned"
    /\ synced' = synced \cup {cur}
    /\ UNCHANGED <<cfgVars, fsVars, lvVars, cur, runs, local_videos,
                   latest_videos, new_videos, dl_pending, old_videos, rm_pending,
                   invoked, attempted, deleted, dl_failed, rm_failed, list_failed>>

\* back in the loop of ArchiverCLI.sync
SyncLoopNext ==
    /\ pc = "returned"
    /\ pc' = "loop"
    /\ cur' = cur + 1
    /\ UNCHANGED <<cfgVars, fsVars, lvVars, runs, synced, local_videos,
                   latest_videos, new_videos, dl_pending, old_videos, rm_pending,
                   invoked, attempted, deleted, dl_failed, rm_failed, list_failed>>

NextSync ==
    \/ SyncStart
    \/ SyncChannelBegin
    \/ SyncExit
    \/ GetLatest
    \/ GetLatestRaises
    \/ Download
    \/ CleanupBegin
    \/ Cleanup
    \/ SyncChannelReturn
    \/ SyncLoopNext

(***************************************************************************)
(* Initial states                                                          *)
(***************************************************************************)
InitSyncVars ==
    /\ pc = "idle"
    /\ cur = 1
    /\ runs = 0
    /\ local_videos = {}
    /\ latest_videos = {}
    /\ new_videos = {}
    /\ dl_pending = {}
    /\ old_videos = {}
    /\ rm_pending = {}
    /\ invoked = NoInvocations
    /\ attempted = {}
    /\ deleted = {}
    /\ dl_failed = FALSE
    /\ rm_failed = FALSE
    /\ list_failed = FALSE
    /\ synced = {}

InitLvVars ==
    /\ lv_feed = <<>>
    /\ lv_keep = None
    /\ lv_result = None

EmptyDirs == [n \in ChannelNames |-> {}]

\* one channel with a directory of up to MaxInitFiles entries
InitSync ==
    /\ \E k \in {None, Some(2)} :
          config = [hasChannels |-> TRUE, channels |-> <<Chan("n1", "c1", k)>>]
    /\ disk = config
    /\ last_add = NoAdd
    /\ \E st \in {"ok", "missing", "unreadable"} :
       \E es \in {x \in SUBSET InitNames : Cardinality(x) <= MaxInitFiles} :
          /\ st = "missing" => es = {}
          /\ dirState = [n \in ChannelNames |-> IF n = "n1" THEN st ELSE "missing"]
          /\ files = [EmptyDirs EXCEPT !["n1"] = es]
    /\ InitSyncVars
    /\ InitLvVars

SpecSync == InitSync /\ [][NextSync]_vars

\* two channels, each with a small directory
RunNames == {Tagged(TitleT, IdA), Tagged(TitleT, IdB)}

InitRun ==
    /\ \E k \in {None, Some(2)} :
          config = [hasChannels |-> TRUE,
                    channels |-> <<Chan("n2", "c2", k), Chan("n3", "c3", None)>>]
    /\ disk = config
    /\ last_add = NoAdd
    /\ \E e2 \in SUBSET RunNames, e3 \in SUBSET RunNames :
          /\ files = [EmptyDirs EXCEPT !["n2"] = e2, !["n3"] = e3]
          /\ dirState = [n \in ChannelNames |->
                            IF files[n] = {} THEN "missing" ELSE "ok"]
    /\ InitSyncVars
    /\ InitLvVars

SpecRun == InitRun /\ [][NextSync]_vars

(***************************************************************************)
(* `add` alone                                                             *)
(***************************************************************************)
InitAdd ==
    /\ config \in {[hasChannels |-> FALSE, channels |-> <<>>],
                   [hasChannels |-> TRUE, channels |-> <<>>],
                   [hasChannels |-> TRUE, channels |-> <<Chan("n1", "c1", None)>>],
                   [hasChannels |-> TRUE,
                    channels |-> <<Chan("n1", "c1", Some(2)), Chan("n2", "c2", None)>>]}
    /\ disk = config
    /\ last_add = NoAdd
    /\ files = EmptyDirs
    /\ dirState = [n \in ChannelNames |-> "missing"]
    /\ InitSyncVars
    /\ InitLvVars

NextAdd == Add

SpecAdd == InitAdd /\ [][NextAdd]_vars

(***************************************************************************)
(* get_latest_videos alone, on every feed and keep within the bounds       *)
(***************************************************************************)
Keeps == {None} \cup {Some(k) : k \in (-1)..MaxKeep}

InitLatest ==
    /\ config = [hasChannels |-> TRUE, channels |-> <<>>]
    /\ disk = config
    /\ last_add = NoAdd
    /\ files = EmptyDirs
    /\ dirState = [n \in ChannelNames |-> "missing"]
    /\ InitSyncVars
    /\ lv_feed \in Feeds("c1")
    /\ lv_keep \in Keeps
    /\ lv_result = None

LatestCall ==
    /\ lv_result = None
    /\ lv_result' = Some(get_latest_videos(lv_feed, lv_keep))
    /\ UNCHANGED <<cfgVars, fsVars, syncVars, lv_feed, lv_keep>>

NextLatest == LatestCall

SpecLatest == InitLatest /\ [][NextLatest]_vars

(***************************************************************************)
(* Vocabulary of the properties                                            *)
(***************************************************************************)
\* name ends in "[<id>].<ext>": a "[", the id (characters of [\w-]), "].", and
\* an extension of one or more word characters, and nothing after it
EndsInTag(name, id) ==
    \E k \in 1..Len(name) :
       LET ext == SubSeq(name, Len(name) - k + 1, Len(name))
           tail == <<"[">> \o id \o <<"]", ".">> \o ext
       IN  /\ Len(id) >= 1
           /\ \A i \in 1..Len(id) : id[i] \in IdChars
           /\ \A i \in 1..Len(ext) : ext[i] \in WordChars
           /\ Len(tail) <= Len(name)
           /\ SubSeq(name, Len(name) - Len(tail) + 1, Len(name)) = tail

SubSeqs(name) == {SubSeq(name, i, j) : i \in 1..Len(name), j \in 1..Len(name)}
TagIds(name) == {id \in SubSeqs(name) : EndsInTag(name, id)}
IsTagged(name) == TagIds(name) # {}

CurName == Channel.name
CurFiles == {e \in files[CurName] : os_path_isfile(e)}
InSyncChannel == pc \in {"scanned", "download", "cleanup", "returned"}
Invoked == {v \in AllVideoIds : invoked[v] > 0}

(***************************************************************************)
(* C1.  After a sync_channel whose remote lookup, fetches and deletions    *)
(* all succeeded, in a listable directory, get_local_videos yields exactly *)
(* the remote window.                                                      *)
(***************************************************************************)
C1_Convergence ==
    (/\ pc = "returned"
     /\ ~dl_failed
     /\ ~rm_failed
     /\ dirState[CurName] = "ok")
    => get_local_videos(dirState[CurName], files[CurName]) = latest_videos

(***************************************************************************)
(* C2.  The ids passed to download_videos are the remote ids that are not  *)
(* local, the ids passed to cleanup_videos are the local ids that are not  *)
(* remote, the two sets are disjoint, an empty remote window purges every  *)
(* local id and an empty local set fetches every remote id; the downloader *)
(* is invoked for exactly the ids passed.                                  *)
(***************************************************************************)
C2_Reconciliation ==
    LET ids == AllVideoIds \cup local_videos \cup latest_videos
    IN  /\ pc \in {"download", "cleanup", "returned"} =>
              /\ \A v \in ids :
                    v \in new_videos <=> (v \in latest_videos /\ v \notin local_videos)
              /\ new_videos \subseteq ids
              /\ local_videos = {} => new_videos = latest_videos
        /\ pc \in {"cleanup", "returned"} =>
              /\ \A v \in ids :
                    v \in old_videos <=> (v \in local_videos /\ v \notin latest_videos)
              /\ old_videos \subseteq ids
              /\ new_videos \cap old_videos = {}
              /\ latest_videos = {} => old_videos = local_videos
              /\ Invoked = new_videos

\* C2 witness: a sync that both fetched and purged, with an id kept on both sides
C2_Witness ==
    /\ pc = "returned"
    /\ new_videos # {}
    /\ old_videos # {}
    /\ local_videos \cap latest_videos # {}

(***************************************************************************)
(* C3 as stated.  get_latest_videos collects the ids of the first keep     *)
(* feed entries (all of them when keep is None): never more than keep ids, *)
(* the whole feed when it is shorter than keep (stated here for the keeps  *)
(* of 0 and more only).                                                    *)
(***************************************************************************)
C3_Original ==
    \A r \in lv_result :
       /\ lv_keep = None => r = Range(lv_feed)
       /\ \A k \in lv_keep :
             k >= 0 =>
                /\ r = Range(SubSeq(lv_feed, 1, Min(k, Len(lv_feed))))
                /\ Cardinality(r) <= k
                /\ Len(lv_feed) < k => r = Range(lv_feed)

(***************************************************************************)
(* C3 amended.  For a keep of 1 or more the result is the id set of the    *)
(* first keep feed entries (the whole feed when it is shorter), so it has  *)
(* at most keep ids; for keep None, 0 or negative it is the id set of the  *)
(* whole feed.  keep=2 on [b, ab, a] gives {b, ab}.                        *)
(***************************************************************************)
C3_RetentionWindow ==
    \A r \in lv_result :
       /\ lv_keep = None => r = Range(lv_feed)
       /\ \A k \in lv_keep :
             /\ k >= 1 =>
                   /\ r = Range(SubSeq(lv_feed, 1, Min(k, Len(lv_feed))))
                   /\ Cardinality(r) <= k
                   /\ Len(lv_feed) < k => r = Range(lv_feed)
             /\ k < 1 => r = Range(lv_feed)
       /\ (lv_feed = <<IdB, IdAB, IdA>> /\ lv_keep = Some(2)) => r = {IdB, IdAB}

\* C3 witness: the call with keep=2 on the feed [b, ab, a]
C3_Witness ==
    /\ lv_feed = <<IdB, IdAB, IdA>>
    /\ lv_keep = Some(2)
    /\ lv_result = Some({IdB, IdAB})

(***************************************************************************)
(* C4 as stated.  get_local_videos takes ids only from the files ending in *)
(* the tag, and a sync never deletes a file that does not end in the tag.  *)
(***************************************************************************)
C4_Original ==
    /\ (pc = "scanned" /\ ~list_failed) =>
          local_videos = UNION {TagIds(e) : e \in CurFiles}
    /\ \A e \in deleted : IsTagged(e)

(***************************************************************************)
(* C4 amended.  get_local_videos takes ids only from the files ending in   *)
(* the tag, and a sync_channel call deletes a file that does not end in    *)
(* the tag only if its name contains an id of that call's purge set.       *)
(***************************************************************************)
C4_UntaggedIgnored ==
    /\ (pc = "scanned" /\ ~list_failed) =>
          local_videos = UNION {TagIds(e) : e \in CurFiles}
    /\ \A e \in deleted :
          ~IsTagged(e) => \E p \in old_videos : Contains(e, p)

\* C4 witness: a second sync purged the untagged "a.m" and left the untagged "t.m"
C4_Witness ==
    /\ pc = "returned"
    /\ ThumbA \in deleted
    /\ PlainT \in files[CurName]
    /\ runs = 2

(***************************************************************************)
(* C5.  When the `sync` command has ended, every configured channel other  *)
(* than one whose remote lookup raised has been synced.                    *)
(***************************************************************************)
C5_ChannelIsolation ==
    pc \in {"exit", "aborted"} =>
       \A i \in DOMAIN Config_channels(config) :
          i \in synced \/ (pc = "aborted" /\ i = cur)

(***************************************************************************)
(* C6.  An add whose id is the id of a stored channel returns False (exit  *)
(* code 1), leaves the channel list as it was and does not save.           *)
(***************************************************************************)
AddWasDuplicate ==
    /\ last_add.n > 0
    /\ \E i \in DOMAIN last_add.before : last_add.before[i].id = last_add.channel.id

C6_DuplicateAdd ==
    AddWasDuplicate =>
       /\ last_add.result = FALSE
       /\ last_add.exit = 1
       /\ Config_channels(config) = last_add.before
       /\ ~last_add.saved
       /\ Config_channels(disk) = last_add.before

\* C6 witness: a duplicate add whose name and keep differ from the stored channel's
C6_Witness ==
    /\ AddWasDuplicate
    /\ \A i \in DOMAIN last_add.before :
          last_add.before[i].id = last_add.channel.id =>
             /\ last_add.before[i].name # last_add.channel.name
             /\ last_add.before[i].keep # last_add.channel.keep

(***************************************************************************)
(* C7.  After a cleanup_videos with no deletion error, no file of the      *)
(* directory whose name contains a purged id remains, and only files       *)
(* whose name contains a purged id were deleted.                           *)
(***************************************************************************)
C7_PurgeBreadth ==
    (pc = "returned" /\ ~rm_failed) =>
       /\ \A p \in old_videos : \A e \in CurFiles : ~Contains(e, p)
       /\ \A e \in deleted : \E p \in old_videos : Contains(e, p)

(***************************************************************************)
(* C8.  Inside one sync_channel a non-zero downloader exit and a failed    *)
(* deletion stop nothing: every id of the fetch set gets exactly one       *)
(* downloader invocation, every entry the glob matches for an id of the    *)
(* purge set gets a deletion attempt, and no deletion is attempted before  *)
(* the last fetch.                                                         *)
(***************************************************************************)
C8_SiblingIsolation ==
    /\ \A v \in AllVideoIds : invoked[v] <= 1
    /\ pc \in {"cleanup", "returned"} =>
          \A v \in AllVideoIds : invoked[v] = IF v \in new_videos THEN 1 ELSE 0
    /\ attempted # {} =>
          (pc \notin {"scanned", "download"} /\ dl_pending = {} /\ Invoked = new_videos)
    /\ deleted \subseteq attempted
    /\ pc = "returned" =>
          \A p \in old_videos :
             glob_glob("ok", files[CurName] \cup deleted, p) \subseteq attempted

\* C8 witness: a sync_channel that returned after a failed download and a failed deletion
C8_Witness ==
    /\ pc = "returned"
    /\ dl_failed
    /\ rm_failed
    /\ Cardinality(new_videos) >= 2
    /\ Cardinality(attempted) >= 2
    /\ deleted # {}

(***************************************************************************)
(* C9.  When the channel directory cannot be listed, get_local_videos      *)
(* returns the empty set and the sync goes on: it invokes the downloader   *)
(* once for every id of the remote window and attempts no deletion.        *)
(***************************************************************************)
C9_FailOpenScan ==
    (InSyncChannel /\ list_failed) =>
       /\ local_videos = {}
       /\ attempted = {}
       /\ deleted = {}
       /\ pc \in {"download", "cleanup", "returned"} => new_videos = latest_videos
       /\ pc \in {"cleanup", "returned"} =>
             /\ Invoked = latest_videos
             /\ old_videos = {}

\* C9 witness: a sync_channel that returned after failing to list a directory holding a stale file
C9_Witness ==
    /\ pc = "returned"
    /\ list_failed
    /\ dirState[CurName] = "unreadable"
    /\ latest_videos # {}
    /\ Tagged(TitleT, IdA) \in files[CurName]
    /\ IdA \notin latest_videos

(***************************************************************************)
(* C10.  After an add that returned True, channels() is the former list    *)
(* followed by a channel with the new id, and the saved configuration      *)
(* holds it too.                                                           *)
(***************************************************************************)
C10_AddVisible ==
    (last_add.n > 0 /\ last_add.result) =>
       LET cs == Config_channels(config)
           n == Len(last_add.before)
       IN  /\ Len(cs) = n + 1
           /\ SubSeq(cs, 1, n) = last_add.before
           /\ cs[n + 1].id = last_add.channel.id
           /\ Config_channels(disk) = cs

====
